---------------------------- MODULE Spec2Model ----------------------------
(***************************************************************************)
(* SilentSOS: the emergency detection and alerting pipeline.               *)
(*                                                                         *)
(* Parts of the program are modelled, each with its own specification      *)
(* over the same variables:                                                *)
(*   SpecLearning   the server's POST /users/learning/:userId route        *)
(*   SpecScoring    the scoring engines, the report route's scoring step   *)
(*                  and the classifiers                                    *)
(*   SpecRange      the engines with the thresholds anywhere in their      *)
(*                  clamp intervals                                        *)
(*   SpecPurity     repeated evaluations of one input at different hours   *)
(*   SpecStore      from the loop's decision to the stored record          *)
(*   SpecThresholds the client detector's updateThresholds                 *)
(*   SpecCountdown  the client's countdown (trigger, tick, cancel, send)   *)
(*                  with the server routes it calls                        *)
(*   SpecLoop       the detection effect's 2-second interval and the       *)
(*                  arrival of readings; FairSpecLoop adds fairness        *)
(*   SpecClient     SpecCountdown with the manual triggers                 *)
(*   SpecTracking   RealTimeLocationService and its sos_events writes      *)
(*   SpecDispatch   one POST /emergency/report request with its            *)
(*                  sendEmergencyAlert call; FairSpecDispatch adds the     *)
(*                  fairness of Node's event loop                          *)
(*   Spec           the report, cancel and resolve routes together         *)
(*                                                                         *)
(* Multipliers (1.0, 0.95, ...) are fixed-point integers, One = 1.0; a     *)
(* product is truncated to that precision.                                 *)
(***************************************************************************)
EXTENDS Integers, Sequences, FiniteSets, TLC

VARIABLES
    \* ---- Firestore collections
    users,              \* users/{userId}: [exists, hasThresholds, adaptiveThresholds]
    learning_data,      \* learning_data: sequence of added documents
    emergencies,        \* emergencies: sequence of documents, id = index
    emergency_contacts, \* emergency_contacts rows of the user (emails)
    sos_events,         \* sos_events rows of the user
    \* ---- server: POST /users/learning/:userId requests
    lreq,
    users0,             \* history: the users document before any request
    \* ---- server: /emergency requests and sendEmergencyAlert
    ereq,               \* POST /emergency/report requests
    calls,              \* POST /emergency/cancel and /resolve requests
    \* ---- client: RealSensorProvider / SensorProvider
    sosCountdown,       \* committed hook state sosCountdown
    updateQueue,        \* pending updates of the sosCountdown hook
    timers,             \* countdown intervals set and not cleared
    windowInterval,     \* window.emergencyCountdownInterval
    activeEmergency,    \* committed hook state activeEmergency
    cdCount,            \* countdowns started so far
    net,                \* client requests and server responses in flight
    cdLog,              \* history: what happened to each countdown
    \* ---- scoring engines
    scoring,            \* one input and what each engine made of it
    detector,           \* the client's EmergencyDetector instance
    \* ---- client: RealTimeLocationService
    tracker,            \* the singleton's fields and its writes in flight
    \* ---- client: the detection effect of RealSensorProvider
    monitor             \* the 2-second evaluation interval and the readings

vars == << users, learning_data, emergencies, emergency_contacts, sos_events,
           lreq, users0, ereq, calls,
           sosCountdown, updateQueue, timers, windowInterval, activeEmergency,
           cdCount, net, cdLog, scoring, detector, tracker, monitor >>

storeVars    == << users, learning_data, emergencies, emergency_contacts, sos_events >>
learningVars == << lreq, users0 >>
serverVars   == << ereq, calls >>
clientVars   == << sosCountdown, updateQueue, timers, windowInterval,
                   activeEmergency, cdCount, net, cdLog >>
engineVars   == << scoring, detector >>

\* JavaScript null / undefined where a number or an id is expected
Null == -1

(***************************************************************************)
(* Bounds of the model.                                                    *)
(***************************************************************************)
MaxLearningReqs == 2
MaxCountdowns == 2
MaxReports == 1
MaxCalls == 2
MaxContacts == 3
MaxSosEvents == 2

(***************************************************************************)
(* Adaptive thresholds: users.js, POST /learning/:userId                   *)
(***************************************************************************)
One == 10000

Outcomes == {"false_positive", "true_positive", "missed_emergency"}

DefaultThresholds ==
    [motionSensitivity |-> One, audioSensitivity |-> One, contextWeight |-> One]

\* x * (pct/100), truncated to the fixed-point precision
Scaled(x, pct) == (x * pct) \div 100

\* the route's adjustment of currentThresholds by outcome
AdjustThresholds(t, outcome) ==
    IF outcome = "false_positive"
    THEN [t EXCEPT !.motionSensitivity = Scaled(@, 95),
                   !.audioSensitivity  = Scaled(@, 95)]
    ELSE IF outcome = "missed_emergency"
    THEN [t EXCEPT !.motionSensitivity = Scaled(@, 105),
                   !.audioSensitivity  = Scaled(@, 105)]
    ELSE t

\* userData.adaptiveThresholds || { 1.0, 1.0, 1.0 }
CurrentThresholds(userData) ==
    IF userData.hasThresholds
    THEN userData.adaptiveThresholds
    ELSE DefaultThresholds

LearningReqs == 1 .. MaxLearningReqs

IdleLearningReq == [pc |-> "idle", outcome |-> "none", emergencyId |-> Null,
                    currentThresholds |-> DefaultThresholds]

\* a POST /learning/:userId request arrives
LearningReceive(r) ==
    /\ lreq[r].pc = "idle"
    /\ \E o \in Outcomes :
          lreq' = [lreq EXCEPT ![r] = [@ EXCEPT !.pc = "add", !.outcome = o]]
    /\ UNCHANGED << storeVars, users0, serverVars, clientVars, engineVars, tracker, monitor >>

\* await db.collection('learning_data').add({...})
LearningAdd(r) ==
    /\ lreq[r].pc = "add"
    /\ learning_data' = Append(learning_data,
                               [outcome |-> lreq[r].outcome,
                                emergencyId |-> lreq[r].emergencyId,
                                cd |-> Null])
    /\ lreq' = [lreq EXCEPT ![r].pc = "get"]
    /\ UNCHANGED << users, emergencies, emergency_contacts, sos_events,
                    users0, serverVars, clientVars, engineVars, tracker, monitor >>

\* const userDoc = await ...get(); if (userDoc.exists) { adjust in memory }
LearningGet(r) ==
    /\ lreq[r].pc = "get"
    /\ lreq' = [lreq EXCEPT ![r] =
                  IF users.exists
                  THEN [@ EXCEPT !.pc = "update",
                                 !.currentThresholds =
                                     AdjustThresholds(CurrentThresholds(users),
                                                      lreq[r].outcome)]
                  ELSE [@ EXCEPT !.pc = "respond"]]
    /\ UNCHANGED << storeVars, users0, serverVars, clientVars, engineVars, tracker, monitor >>

\* await db.collection('users').doc(userId).update({ adaptiveThresholds, ... })
LearningUpdate(r) ==
    /\ lreq[r].pc = "update"
    /\ users' = [users EXCEPT !.hasThresholds = TRUE,
                               !.adaptiveThresholds = lreq[r].currentThresholds]
    /\ lreq' = [lreq EXCEPT ![r].pc = "respond"]
    /\ UNCHANGED << learning_data, emergencies, emergency_contacts, sos_events,
                    users0, serverVars, clientVars, engineVars, tracker, monitor >>

\* res.json({ success: true })
LearningRespond(r) ==
    /\ lreq[r].pc = "respond"
    /\ lreq' = [lreq EXCEPT ![r].pc = "done"]
    /\ UNCHANGED << storeVars, users0, serverVars, clientVars, engineVars, tracker, monitor >>

InitialUsers ==
    { [exists |-> FALSE, hasThresholds |-> FALSE, adaptiveThresholds |-> DefaultThresholds],
      [exists |-> TRUE,  hasThresholds |-> FALSE, adaptiveThresholds |-> DefaultThresholds],
      [exists |-> TRUE,  hasThresholds |-> TRUE,  adaptiveThresholds |-> DefaultThresholds],
      [exists |-> TRUE,  hasThresholds |-> TRUE,
       adaptiveThresholds |-> AdjustThresholds(DefaultThresholds, "missed_emergency")] }

(***************************************************************************)
(* Scoring engines.  Sub-scores are whole points; a total is kept in       *)
(* units of 1/TotalScale of a point, so that the weights (0.5, 0.2, 0.1)   *)
(* and the fixed-point multipliers are applied exactly.                    *)
(***************************************************************************)
TotalScale == 10 * One

Min(a, b) == IF a < b THEN a ELSE b
Max(a, b) == IF a > b THEN a ELSE b

\* sensorData as the client builds it (sensorManager / sendManualAlert):
\* motion.magnitude is in tenths, the durations in milliseconds;
\* suddenImpact and acceleration.variance are Null when absent
MotionSamples ==
    [magnitude : {0, 205}, variance : {0, 12}, inactivityDuration : {0, 35000},
     suddenImpact : {Null, 16}, accelerationVariance : {Null, 12}]

NoMotion ==
    [magnitude |-> 0, variance |-> 0, inactivityDuration |-> 0,
     suddenImpact |-> Null, accelerationVariance |-> Null]

\* present: the request carries sensorData; hasMotion: sensorData.motion is
\* set; breathing: sensorData.audio is set, with breathingIrregularity 0.8
SensorSamples ==
    {[present |-> FALSE, hasMotion |-> FALSE, motion |-> NoMotion, breathing |-> FALSE]}
    \cup {[present |-> TRUE, hasMotion |-> FALSE, motion |-> NoMotion, breathing |-> b]
             : b \in BOOLEAN}
    \cup {[present |-> TRUE, hasMotion |-> TRUE, motion |-> m, breathing |-> b]
             : m \in MotionSamples, b \in BOOLEAN}

\* contextData: absent, or an object without environment and userPatterns;
\* hour is new Date().getHours() when the engine runs
ContextSamples == [present : BOOLEAN, hour : {12, 23}]

\* location: absent, or { isolation: { nearbyPeople: 0, publicPlace: false,
\* cellTowerDistance: 6000 } }, or { safeZones: { nearestHospital:
\* { distance: 500 } } }
LocationSamples == {"absent", "isolated", "nearHelp"}

\* analyzeSensorData of services/emergencyDetection.js (server)
ServerSensorScore(sd) ==
    LET impact == IF sd.hasMotion /\ sd.motion.suddenImpact # Null
                     /\ sd.motion.suddenImpact > 15 THEN 40 ELSE 0
        fall   == IF sd.hasMotion /\ sd.motion.accelerationVariance # Null
                     /\ sd.motion.accelerationVariance > 10 THEN 25 ELSE 0
        breath == IF sd.breathing THEN 25 ELSE 0
    IN Min(100, impact + fall + breath)

\* analyzeSensorData of EmergencyDetector.js (client)
DetectorSensorScore(sd) ==
    LET impact == IF sd.hasMotion /\ sd.motion.suddenImpact # Null
                     /\ sd.motion.suddenImpact > 15
                  THEN Min(40, sd.motion.suddenImpact * 2) ELSE 0
        varnc  == IF sd.hasMotion /\ sd.motion.variance > 10
                  THEN Min(25, sd.motion.variance * 2) ELSE 0
        shake  == IF sd.hasMotion /\ sd.motion.magnitude > 200 THEN 30 ELSE 0
        breath == IF sd.breathing THEN 25 ELSE 0
    IN Min(100, impact + varnc + shake + breath)

\* analyzeContextData: only the time-of-day terms apply to ContextSamples
ServerContextScore(cd) == IF cd.hour >= 22 \/ cd.hour <= 6 THEN 15 ELSE 0

DetectorContextScore(cd) ==
    (IF cd.hour >= 22 \/ cd.hour <= 6 THEN 15 ELSE 0)
    + (IF cd.hour >= 2 /\ cd.hour <= 5 THEN 5 ELSE 0)

\* analyzeLocationData (the same in both engines for LocationSamples)
LocationScore(loc) ==
    IF loc = "isolated" THEN Max(0, Min(100, 15 + 10 + 8))
    ELSE IF loc = "nearHelp" THEN Max(0, Min(100, 0 - 10))
    ELSE 0

\* Math.min(100, s*0.5 + c*0.2 + l*0.2 + crowd*0.1) of the server engine
ServerTotal(s, c, l, crowd) ==
    Min(100 * TotalScale, s * 5 * One + c * 2 * One + l * 2 * One + crowd * One)

\* variant: the weighted sum as it is
DetectorTotalUncapped(s, c, l, crowd, t) ==
    s * 5 * t.motionSensitivity + c * 2 * t.contextWeight + l * 2 * One + crowd * One

\* Math.min(100, s*0.5*motionSensitivity + c*0.2*contextWeight + l*0.2
\*               + crowd*0.1) of the client engine
DetectorTotal(s, c, l, crowd, t) ==
    Min(100 * TotalScale,
        s * 5 * t.motionSensitivity + c * 2 * t.contextWeight
          + l * 2 * One + crowd * One)

\* EmergencyDetector.classifyEmergency(score).level
classifyEmergency(score) ==
    IF score >= 70 * TotalScale THEN "emergency"
    ELSE IF score >= 40 * TotalScale THEN "suspicious"
    ELSE "safe"

\* the status computed by the monitoring loops (processRealSensorData of
\* AuthContext.js, processSensorData of SensorContext.js)
LoopStatus(score) ==
    IF score > 70 * TotalScale THEN "emergency"
    ELSE IF score > 40 * TotalScale THEN "suspicious"
    ELSE "safe"

\* the score of processRealSensorData
LoopScore(m) ==
    (IF m.magnitude > 200 THEN 40 ELSE 0)
    + (IF m.variance > 10 THEN 30 ELSE 0)
    + (IF m.inactivityDuration > 30000 THEN 30 ELSE 0)

NoBreakdown ==
    [sensorScore |-> 0, contextScore |-> 0, locationScore |-> 0,
     crowdScore |-> 0, totalScore |-> 0]

\* calculateEmergencyScore of services/emergencyDetection.js: the breakdown
\* it returns.  crowdSignals is absent in ContextSamples: crowdScore 0.
ServerBreakdown(sd, cd, loc) ==
    [sensorScore   |-> ServerSensorScore(sd),
     contextScore  |-> ServerContextScore(cd),
     locationScore |-> LocationScore(loc),
     crowdScore    |-> 0,
     totalScore    |-> ServerTotal(ServerSensorScore(sd), ServerContextScore(cd),
                                   LocationScore(loc), 0)]

\* sensorData.motion, contextData.environment and contextData.crowdSignals
\* are read without a check of sensorData / contextData: a TypeError
ServerEngineThrows(sd, cd) == ~ sd.present \/ ~ cd.present

\* EmergencyDetector.calculateEmergencyScore with thresholds t
DetectorBreakdown(sd, cd, loc, t) ==
    [sensorScore   |-> DetectorSensorScore(sd),
     contextScore  |-> DetectorContextScore(cd),
     locationScore |-> LocationScore(loc),
     crowdScore    |-> 0,
     totalScore    |-> DetectorTotal(DetectorSensorScore(sd), DetectorContextScore(cd),
                                     LocationScore(loc), 0, t)]

\* Math.max(lo, Math.min(hi, x))
Clamp(lo, hi, x) == Max(lo, Min(hi, x))

\* EmergencyDetector.updateThresholds(outcome): the instance afterwards.
\* updates is history: the number of calls so far.
updateThresholds(d, outcome) ==
    LET count == IF outcome = "false_positive"
                 THEN d.falsePositiveCount + 1 ELSE d.falsePositiveCount
        t == d.userThresholds
        adjusted ==
            IF outcome = "false_positive"
            THEN [motionSensitivity |-> Scaled(t.motionSensitivity, 95),
                  audioSensitivity  |-> Scaled(t.audioSensitivity, 95),
                  contextWeight     |-> IF count > 5 THEN Scaled(t.contextWeight, 90)
                                        ELSE t.contextWeight]
            ELSE IF outcome = "missed_emergency"
            THEN [motionSensitivity |-> Scaled(t.motionSensitivity, 105),
                  audioSensitivity  |-> Scaled(t.audioSensitivity, 105),
                  contextWeight     |-> Scaled(t.contextWeight, 102)]
            ELSE t
    IN [userThresholds |->
            [motionSensitivity |-> Clamp((3 * One) \div 10, 2 * One,
                                         adjusted.motionSensitivity),
             audioSensitivity  |-> Clamp((3 * One) \div 10, 2 * One,
                                         adjusted.audioSensitivity),
             contextWeight     |-> Clamp((5 * One) \div 10, (15 * One) \div 10,
                                         adjusted.contextWeight)],
        falsePositiveCount |-> count,
        updates |-> d.updates + 1]

\* what an engine or a loop made of the input: nothing yet, or a result
NoResult == [state |-> "none", breakdown |-> NoBreakdown, status |-> "none"]

\* what the report route made of it: emergencyScore and the confidence and
\* breakdown fields of emergencyData, or a throw
NoRouteResult ==
    [state |-> "none", engineCalled |-> FALSE, confidence |-> 0,
     breakdownDefined |-> FALSE, breakdownManual |-> FALSE,
     breakdown |-> NoBreakdown]

\* scores handed to classifyEmergency, around its boundaries
ScoreSamples ==
    {(x * TotalScale) \div 10 : x \in {0, 399, 400, 401, 699, 700, 701, 1000}}

IdleScoring ==
    [sensorData |-> [present |-> TRUE, hasMotion |-> FALSE, motion |-> NoMotion,
                     breathing |-> FALSE],
     contextData |-> [present |-> TRUE, hour |-> 12],
     location |-> "absent",
     manual |-> FALSE,
     score |-> 0,
     route |-> NoRouteResult, detector |-> NoResult, loop |-> NoResult,
     level |-> "none", evals |-> << >>]

IdleDetector ==
    [userThresholds |-> DefaultThresholds, falsePositiveCount |-> 0, updates |-> 0]

InitEngineIdle ==
    /\ scoring = IdleScoring
    /\ detector = IdleDetector

\* variant: the engine scores a manual report like any other
RouteScoreAlwaysEngine ==
    /\ scoring.route.state = "none"
    /\ scoring' = [scoring EXCEPT !.route =
          IF ServerEngineThrows(scoring.sensorData, scoring.contextData)
          THEN [NoRouteResult EXCEPT !.state = "threw", !.engineCalled = TRUE]
          ELSE [state |-> "scored", engineCalled |-> TRUE,
                confidence |-> ServerBreakdown(scoring.sensorData, scoring.contextData,
                                               scoring.location).totalScore,
                breakdownDefined |-> FALSE, breakdownManual |-> scoring.manual,
                breakdown |-> NoBreakdown]]
    /\ UNCHANGED << storeVars, learningVars, serverVars, clientVars, detector, tracker, monitor >>

\* POST /emergency/report, from the request body to emergencyData: a manual
\* report gets the fixed score, any other the engine's; the engine returns
\* the breakdown itself, so emergencyScore.breakdown is undefined
RouteScore ==
    /\ scoring.route.state = "none"
    /\ scoring' = [scoring EXCEPT !.route =
          IF scoring.manual
          THEN [state |-> "scored", engineCalled |-> FALSE,
                confidence |-> 100 * TotalScale,
                breakdownDefined |-> TRUE, breakdownManual |-> TRUE,
                breakdown |-> [NoBreakdown EXCEPT !.totalScore = 100 * TotalScale]]
          ELSE IF ServerEngineThrows(scoring.sensorData, scoring.contextData)
          THEN [NoRouteResult EXCEPT !.state = "threw", !.engineCalled = TRUE]
          ELSE [state |-> "scored", engineCalled |-> TRUE,
                confidence |-> ServerBreakdown(scoring.sensorData, scoring.contextData,
                                               scoring.location).totalScore,
                breakdownDefined |-> FALSE, breakdownManual |-> FALSE,
                breakdown |-> NoBreakdown]]
    /\ UNCHANGED << storeVars, learningVars, serverVars, clientVars, detector, tracker, monitor >>

\* processSensorData of SensorContext.js: the detector's score of the hook's
\* sensorData and of the contextData built from it, and the status
DetectorRun ==
    /\ scoring.detector.state = "none"
    /\ scoring.sensorData.present
    /\ scoring.contextData.present
    /\ LET b == DetectorBreakdown(scoring.sensorData, scoring.contextData,
                                  scoring.location, detector.userThresholds)
       IN scoring' = [scoring EXCEPT !.detector =
                         [state |-> "scored", breakdown |-> b,
                          status |-> LoopStatus(b.totalScore)]]
    /\ UNCHANGED << storeVars, learningVars, serverVars, clientVars, detector, tracker, monitor >>

\* processRealSensorData of AuthContext.js (it runs when sensorData.motion
\* is set)
LoopRun ==
    /\ scoring.loop.state = "none"
    /\ scoring.sensorData.present
    /\ scoring.sensorData.hasMotion
    /\ LET score == LoopScore(scoring.sensorData.motion) * TotalScale
       IN scoring' = [scoring EXCEPT !.loop =
                         [state |-> "scored",
                          breakdown |-> [NoBreakdown EXCEPT !.sensorScore =
                                            LoopScore(scoring.sensorData.motion),
                                                            !.totalScore = score],
                          status |-> LoopStatus(score)]]
    /\ UNCHANGED << storeVars, learningVars, serverVars, clientVars, detector, tracker, monitor >>

\* emergencyDetector.classifyEmergency(score)
Classify ==
    /\ scoring.level = "none"
    /\ scoring' = [scoring EXCEPT !.level = classifyEmergency(scoring.score)]
    /\ UNCHANGED << storeVars, learningVars, serverVars, clientVars, detector, tracker, monitor >>

(***************************************************************************)
(* Server: the state of a POST /emergency/report request (with the         *)
(* sendEmergencyAlert call it makes) and of a cancel / resolve request.    *)
(***************************************************************************)
ReportReqs == 1 .. MaxReports
Calls == 1 .. MaxCalls
Users == {"u1", "u2"}

\* locationData of sendEmergencyAlert: null, the location object the request
\* carried (sensorData.location of the client: coordinates, no lastUpdate),
\* the object sendManualAlert puts in its place when sensorData.location is
\* not set ({ latitude: null, longitude: null, ... }), or (a number >= 1)
\* the updatedAt of the sos_events row used
RequestLocation == 0
NullCoordsLocation == -2

\* the location section generateEmergencyAlertHTML renders: the
\* 'Location data not available' one for null; for an object it evaluates
\* latitude.toFixed(6) and lastUpdate.toLocaleString(), a TypeError when
\* latitude is null or lastUpdate is undefined
RenderSection(locationData) ==
    IF locationData = Null THEN "unavailable"
    ELSE IF locationData \in {RequestLocation, NullCoordsLocation} THEN "threw"
    ELSE "location"

IdleReportReq ==
    [pc |-> "idle", manual |-> FALSE, docId |-> Null, notified |-> "none",
     locationData |-> Null, lookedUp |-> FALSE,
     recipients |-> << >>, total |-> 0, successful |-> 0, failed |-> 0,
     details |-> << >>,
     hung |-> FALSE, alert |-> "none", response |-> "none", emergencyId |-> Null]

IdleCall ==
    [kind |-> "none", pc |-> "idle", target |-> Null, caller |-> "u1",
     sensorSnapshot |-> FALSE, response |-> "none"]

InitStoreEmpty ==
    /\ learning_data = << >>
    /\ emergencies = << >>
    /\ emergency_contacts = << >>
    /\ sos_events = << >>

InitServerIdle ==
    /\ ereq = [r \in ReportReqs |-> IdleReportReq]
    /\ calls = [k \in Calls |-> IdleCall]

\* the RealTimeLocationService singleton after its constructor: watching
\* is watchId !== null; queue holds the setDoc writes sent and not yet
\* applied by the store, in the order sent; issued and sessions count the
\* writes and the startTracking calls so far
IdleTracker ==
    [watching |-> FALSE, currentSOSId |-> Null, queue |-> << >>,
     issued |-> 0, sessions |-> 0]

\* the detection effect: mode says whether motion readings are arriving
\* (one every 250 ms) or have stopped; elapsed is the time since the
\* effect last called setInterval, sinceReading the time since the last
\* reading, both in units of 250 ms
IdleMonitor == [mode |-> "stopped", elapsed |-> 0, sinceReading |-> 0]

InitClientIdle ==
    /\ tracker = IdleTracker
    /\ monitor = IdleMonitor
    /\ sosCountdown = Null
    /\ updateQueue = << >>
    /\ timers = {}
    /\ windowInterval = Null
    /\ activeEmergency = Null
    /\ cdCount = 0
    /\ net = {}
    /\ cdLog = [c \in 1 .. MaxCountdowns |->
                 [cancelled |-> FALSE, expired |-> FALSE, failed |-> FALSE,
                  manual |-> FALSE]]

\* the user's stored thresholds and those of the detector instance are the
\* defaults or those after one false positive
InitScoring ==
    /\ users \in {[exists |-> TRUE, hasThresholds |-> FALSE,
                   adaptiveThresholds |-> DefaultThresholds],
                  [exists |-> TRUE, hasThresholds |-> TRUE,
                   adaptiveThresholds |->
                       AdjustThresholds(DefaultThresholds, "false_positive")]}
    /\ users0 = users
    /\ lreq = [r \in LearningReqs |-> IdleLearningReq]
    /\ InitStoreEmpty
    /\ InitServerIdle
    /\ InitClientIdle
    /\ \E sd \in SensorSamples, cd \in ContextSamples, loc \in LocationSamples,
          m \in BOOLEAN, sc \in ScoreSamples :
          scoring = [IdleScoring EXCEPT !.sensorData = sd, !.contextData = cd,
                                        !.location = loc, !.manual = m,
                                        !.score = sc]
    /\ detector \in {IdleDetector, updateThresholds(IdleDetector, "false_positive")}

NextScoring == RouteScore \/ DetectorRun \/ LoopRun \/ Classify

SpecScoring == InitScoring /\ [][NextScoring]_vars

(***************************************************************************)
(* The engines over the whole range of the thresholds: the detector's      *)
(* thresholds are drawn from the ends and the middle of the intervals      *)
(* updateThresholds clamps them to.                                        *)
(***************************************************************************)
ThresholdCorners ==
    [motionSensitivity : {(3 * One) \div 10, One, 2 * One},
     audioSensitivity  : {One},
     contextWeight     : {(5 * One) \div 10, One, (15 * One) \div 10}]

InitRange ==
    /\ users = [exists |-> TRUE, hasThresholds |-> FALSE,
                adaptiveThresholds |-> DefaultThresholds]
    /\ users0 = users
    /\ lreq = [r \in LearningReqs |-> IdleLearningReq]
    /\ InitStoreEmpty
    /\ InitServerIdle
    /\ InitClientIdle
    /\ \E sd \in SensorSamples, cd \in ContextSamples, loc \in LocationSamples :
          scoring = [IdleScoring EXCEPT !.sensorData = sd, !.contextData = cd,
                                        !.location = loc]
    /\ \E t \in ThresholdCorners :
          detector = [IdleDetector EXCEPT !.userThresholds = t]

SpecRange == InitRange /\ [][NextScoring]_vars

IsPercent(total) == 0 <= total /\ total <= 100 * TotalScale

\* C22: the totalScore either engine computes lies between 0 and 100, for
\* every input and for thresholds anywhere in their clamp intervals
C22_TotalScoreInRange ==
    /\ (scoring.route.state = "scored" /\ scoring.route.engineCalled)
          => IsPercent(scoring.route.confidence)
    /\ scoring.detector.state = "scored"
          => IsPercent(scoring.detector.breakdown.totalScore)

\* the cap is what keeps the detector's total at 100, while the server
\* scores the same input
C22_Witness ==
    /\ scoring.detector.state = "scored"
    /\ scoring.detector.breakdown.sensorScore = 100
    /\ detector.userThresholds.motionSensitivity = 2 * One
    /\ scoring.contextData.hour = 23
    /\ scoring.detector.breakdown.totalScore = 100 * TotalScale
    /\ scoring.route.state = "scored"
    /\ scoring.route.engineCalled

(***************************************************************************)
(* Repeated evaluations of one input.  The arguments are those held in     *)
(* scoring (contextData.hour is then the timeOfDay the caller put into     *)
(* contextData); the hour the engine works with is new Date().getHours()   *)
(* at the time of the call.                                                *)
(***************************************************************************)
MaxEvals == 2

ClockHours == {12, 23}

\* calculateEmergencyScore(sensorData, contextData, location) of the server
\* engine, called when the clock shows hour h
EvaluateServer ==
    /\ Len(scoring.evals) < MaxEvals
    /\ ~ ServerEngineThrows(scoring.sensorData, scoring.contextData)
    /\ \E h \in ClockHours :
          scoring' = [scoring EXCEPT !.evals = Append(@,
              [engine |-> "server", hour |-> h,
               breakdown |-> ServerBreakdown(scoring.sensorData,
                                             [scoring.contextData EXCEPT !.hour = h],
                                             scoring.location)])]
    /\ UNCHANGED << storeVars, learningVars, serverVars, clientVars, detector, tracker, monitor >>

\* EmergencyDetector.calculateEmergencyScore(...), called when the clock
\* shows hour h
EvaluateDetector ==
    /\ Len(scoring.evals) < MaxEvals
    /\ scoring.sensorData.present
    /\ scoring.contextData.present
    /\ \E h \in ClockHours :
          scoring' = [scoring EXCEPT !.evals = Append(@,
              [engine |-> "detector", hour |-> h,
               breakdown |-> DetectorBreakdown(scoring.sensorData,
                                               [scoring.contextData EXCEPT !.hour = h],
                                               scoring.location,
                                               detector.userThresholds)])]
    /\ UNCHANGED << storeVars, learningVars, serverVars, clientVars, detector, tracker, monitor >>

NextPurity == EvaluateServer \/ EvaluateDetector

SpecPurity == InitRange /\ [][NextPurity]_vars

\* C26: two evaluations of the same arguments by the same engine return
\* equal breakdowns, whatever the clock shows at each of them
C26_ScoreIsPureFunction ==
    \A i, j \in DOMAIN scoring.evals :
        scoring.evals[i].engine = scoring.evals[j].engine
            => scoring.evals[i].breakdown = scoring.evals[j].breakdown

\* the classification the boundaries 40 and 70 define
BoundaryClass(total) ==
    IF total < 40 * TotalScale THEN "safe"
    ELSE IF total <= 70 * TotalScale THEN "suspicious"
    ELSE "emergency"

\* C11: every classifier in the code puts a total below 40 in safe, one
\* from 40 to 70 (both included) in suspicious and one above 70 in emergency
C11_ClassificationBoundaries ==
    /\ scoring.level # "none" => scoring.level = BoundaryClass(scoring.score)
    /\ scoring.loop.state = "scored"
          => scoring.loop.status = BoundaryClass(scoring.loop.breakdown.totalScore)
    /\ scoring.detector.state = "scored"
          => scoring.detector.status = BoundaryClass(scoring.detector.breakdown.totalScore)

\* the total of the weighted sum with the thresholds t applied
ThresholdTotal(b, t) ==
    Min(100 * TotalScale,
        b.sensorScore * 5 * t.motionSensitivity
          + b.contextScore * 2 * t.contextWeight
          + b.locationScore * 2 * One + b.crowdScore * One)

\* C12: a computed total is the weighted sum with the user's stored
\* thresholds applied: in the score the report route stores and in the
\* client detector's score
C12_TotalAppliesStoredThresholds ==
    /\ (scoring.route.state = "scored" /\ ~ scoring.manual)
          => scoring.route.confidence =
                ThresholdTotal(ServerBreakdown(scoring.sensorData, scoring.contextData,
                                               scoring.location),
                               CurrentThresholds(users))
    /\ scoring.detector.state = "scored"
          => scoring.detector.breakdown.totalScore =
                ThresholdTotal(scoring.detector.breakdown, CurrentThresholds(users))

\* the input motion.magnitude 20.5, variance 12, inactivityDuration 35000,
\* no audio
FallScenario ==
    [present |-> TRUE, hasMotion |-> TRUE, breathing |-> FALSE,
     motion |-> [magnitude |-> 205, variance |-> 12, inactivityDuration |-> 35000,
                 suddenImpact |-> Null, accelerationVariance |-> Null]]

\* C13: with default thresholds every scorer gives the fall scenario
\* sensorScore 100, a total of at least 70 and the class emergency
C13_FallScenarioIsEmergency ==
    scoring.sensorData = FallScenario
        => /\ scoring.loop.state = "scored"
                 => /\ scoring.loop.breakdown.sensorScore = 100
                    /\ scoring.loop.breakdown.totalScore >= 70 * TotalScale
                    /\ scoring.loop.status = "emergency"
           /\ (scoring.detector.state = "scored"
                  /\ detector.userThresholds = DefaultThresholds)
                 => /\ scoring.detector.breakdown.sensorScore = 100
                    /\ scoring.detector.breakdown.totalScore >= 70 * TotalScale
                    /\ scoring.detector.status = "emergency"
           /\ (scoring.route.state = "scored" /\ ~ scoring.manual
                  /\ CurrentThresholds(users) = DefaultThresholds)
                 => /\ ServerBreakdown(scoring.sensorData, scoring.contextData,
                                       scoring.location).sensorScore = 100
                    /\ scoring.route.confidence >= 70 * TotalScale

\* C15: a manual report is given confidence 100 and the breakdown
\* { manual: true, totalScore: 100, all sub-scores 0 } whatever sensorData,
\* contextData and location it carries, and the engine is not called
C15_ManualScore ==
    (scoring.manual /\ scoring.route.state # "none")
        => /\ scoring.route.state = "scored"
           /\ ~ scoring.route.engineCalled
           /\ scoring.route.confidence = 100 * TotalScale
           /\ scoring.route.breakdownDefined
           /\ scoring.route.breakdownManual
           /\ scoring.route.breakdown =
                 [NoBreakdown EXCEPT !.totalScore = 100 * TotalScale]

C15_Witness ==
    /\ scoring.manual
    /\ scoring.route.state = "scored"
    /\ ServerSensorScore(scoring.sensorData) > 0
    /\ scoring.location = "isolated"

\* C19: the engine returns a breakdown for every input, absent sensorData,
\* contextData or location included: the route's scoring step never throws
C19_EngineNeverThrows ==
    scoring.route.state # "none"
        => /\ scoring.route.state = "scored"
           /\ ~ scoring.manual
                 => scoring.route.confidence =
                       ServerBreakdown(scoring.sensorData, scoring.contextData,
                                       scoring.location).totalScore

\* the stored thresholds after n false_positive requests served one after
\* the other, and the learning_data rows those requests added
RECURSIVE AfterFalsePositives(_)
AfterFalsePositives(n) ==
    IF n = 0 THEN DefaultThresholds
    ELSE AdjustThresholds(AfterFalsePositives(n - 1), "false_positive")

PriorRows(n) ==
    [i \in 1 .. n |-> [outcome |-> "false_positive", emergencyId |-> Null,
                       cd |-> Null]]

PriorFalsePositives == {5, 23}

\* a user as in InitialUsers with no learning outcome recorded yet, or a
\* user whose earlier false positives have been served
InitLearning ==
    /\ \/ /\ users \in InitialUsers
          /\ learning_data = << >>
       \/ \E n \in PriorFalsePositives :
             /\ users = [exists |-> TRUE, hasThresholds |-> TRUE,
                         adaptiveThresholds |-> AfterFalsePositives(n)]
             /\ learning_data = PriorRows(n)
    /\ users0 = users
    /\ lreq = [r \in LearningReqs |-> IdleLearningReq]
    /\ emergencies = << >>
    /\ emergency_contacts = << >>
    /\ sos_events = << >>
    /\ InitServerIdle
    /\ InitClientIdle
    /\ InitEngineIdle

NextLearning ==
    \E r \in LearningReqs :
        \/ LearningReceive(r)
        \/ LearningAdd(r)
        \/ LearningGet(r)
        \/ LearningUpdate(r)
        \/ LearningRespond(r)

SpecLearning == InitLearning /\ [][NextLearning]_vars

(***************************************************************************)
(* Client: a run of updateThresholds calls on one detector instance.       *)
(***************************************************************************)
MaxUpdates == 30

UpdateThresholds(outcome) ==
    /\ detector.updates < MaxUpdates
    /\ detector' = updateThresholds(detector, outcome)
    /\ UNCHANGED << storeVars, learningVars, serverVars, clientVars, scoring, tracker, monitor >>

InitThresholds ==
    /\ users = [exists |-> TRUE, hasThresholds |-> FALSE,
                adaptiveThresholds |-> DefaultThresholds]
    /\ users0 = users
    /\ lreq = [r \in LearningReqs |-> IdleLearningReq]
    /\ InitStoreEmpty
    /\ InitServerIdle
    /\ InitClientIdle
    /\ InitEngineIdle

NextThresholds == \E outcome \in Outcomes : UpdateThresholds(outcome)

SpecThresholds == InitThresholds /\ [][NextThresholds]_vars

\* the thresholds t lie in the ranges the clamps define
InRange(t) ==
    /\ (3 * One) \div 10 <= t.motionSensitivity /\ t.motionSensitivity <= 2 * One
    /\ (3 * One) \div 10 <= t.audioSensitivity /\ t.audioSensitivity <= 2 * One
    /\ (5 * One) \div 10 <= t.contextWeight /\ t.contextWeight <= (15 * One) \div 10

\* C16: the thresholds stored for the user, and those of the client's
\* detector, are within [0.3, 2.0], [0.3, 2.0] and [0.5, 1.5] at all times
C16_ThresholdsClamped ==
    /\ users.hasThresholds => InRange(users.adaptiveThresholds)
    /\ InRange(detector.userThresholds)

\* the false_positive outcomes recorded for the user
FalsePositivesRecorded ==
    Cardinality({i \in DOMAIN learning_data :
                    learning_data[i].outcome = "false_positive"})

\* request r was served alone: no other request has arrived
ServedAlone(r) ==
    /\ lreq[r].pc = "done"
    /\ \A q \in LearningReqs \ {r} : lreq[q].pc = "idle"

\* C17: a false_positive served for a user with a profile multiplies
\* motionSensitivity and audioSensitivity by 0.95, and multiplies
\* contextWeight by 0.9 once more than five false positives are on record
C17_FalsePositiveSchedule ==
    \A r \in LearningReqs :
        (ServedAlone(r) /\ lreq[r].outcome = "false_positive" /\ users0.exists)
            => LET before == CurrentThresholds(users0)
                   after  == users.adaptiveThresholds
               IN /\ after.motionSensitivity = Scaled(before.motionSensitivity, 95)
                  /\ after.audioSensitivity = Scaled(before.audioSensitivity, 95)
                  /\ after.contextWeight =
                        IF FalsePositivesRecorded > 5
                        THEN Scaled(before.contextWeight, 90)
                        ELSE before.contextWeight

\* C18: once a learning request is answered the user has stored thresholds;
\* for a user who had none they are the defaults with the outcome applied
C18_OutcomeNeverDropped ==
    \A r \in LearningReqs :
        lreq[r].pc = "done"
            => /\ users.exists /\ users.hasThresholds
               /\ (ServedAlone(r) /\ ~ users0.hasThresholds)
                     => users.adaptiveThresholds =
                           AdjustThresholds(DefaultThresholds, lreq[r].outcome)

(***************************************************************************)
(* C1 (as claimed): for a user with a stored profile, when two             *)
(* false_positive learning requests have both completed, the stored        *)
(* motionSensitivity is the initial value times 0.95 times 0.95: neither   *)
(* update is lost, whatever the interleaving of the two requests' store    *)
(* reads and writes.                                                       *)
(***************************************************************************)
C1_NoLostUpdate ==
    ( /\ users0.exists
      /\ \A r \in {1, 2} : lreq[r].pc = "done" /\ lreq[r].outcome = "false_positive"
      /\ \A r \in LearningReqs \ {1, 2} : lreq[r].pc = "idle" )
    => users.adaptiveThresholds.motionSensitivity =
         Scaled(Scaled(CurrentThresholds(users0).motionSensitivity, 95), 95)

(***************************************************************************)
(* The emergencies collection: a document as POST /emergency/report        *)
(* creates it.  cd is history: the client countdown the report came from.  *)
(* The request body is the input held in scoring; createdAt is the order   *)
(* of creation; breakdown is emergencyScore.breakdown, which only a manual *)
(* report's emergencyScore has.                                            *)
(***************************************************************************)
EmergencyDoc(manual, cd) ==
    [userId |-> "u1", status |-> "active", resolved |-> FALSE, manual |-> manual,
     cancelReason |-> "none", resolutionNotes |-> "none", cd |-> cd,
     createdAt |-> Len(emergencies) + 1,
     sensorData |-> scoring.sensorData,
     breakdown |-> IF manual THEN "manual" ELSE "undefined",
     confidence |-> IF manual THEN 100 * TotalScale
                    ELSE ServerBreakdown(scoring.sensorData, scoring.contextData,
                                         scoring.location).totalScore]

(***************************************************************************)
(* From the client's decision to the stored record: the monitoring loop    *)
(* scores the snapshot, a countdown fires on status 'emergency' and the    *)
(* snapshot is reported; the route scores it with the server engine and    *)
(* adds the document.  A manual report needs no decision of the loop.      *)
(***************************************************************************)
\* const docRef = await db.collection('emergencies').add(emergencyData), or
\* the add is rejected and the route's catch answers 500
StoreReport ==
    /\ scoring.route.state = "scored"
    /\ scoring.manual \/ scoring.loop.status = "emergency"
    /\ \/ /\ emergencies' = Append(emergencies, EmergencyDoc(scoring.manual, Null))
          /\ scoring' = [scoring EXCEPT !.route.state = "stored"]
       \/ /\ emergencies' = emergencies
          /\ scoring' = [scoring EXCEPT !.route.state = "rejected"]
    /\ UNCHANGED << users, learning_data, emergency_contacts, sos_events,
                    learningVars, serverVars, clientVars, detector, tracker, monitor >>

NextStore == LoopRun \/ RouteScore \/ StoreReport

SpecStore == InitScoring /\ [][NextStore]_vars

\* C29: the confidence stored with a non-manual EmergencyRecord is above 70
C29_NonManualConfidenceAbove70 ==
    \A id \in DOMAIN emergencies :
        ~ emergencies[id].manual => emergencies[id].confidence > 70 * TotalScale

(***************************************************************************)
(* Client: the countdown of RealSensorProvider (AuthContext.js) and        *)
(* SensorProvider (SensorContext.js).                                      *)
(*                                                                         *)
(* sosCountdown is React hook state.  A state update made in a timer       *)
(* callback is queued and applied when React next renders; until then the  *)
(* page shows the committed value and the CANCEL button stays rendered     *)
(* (Dashboard.js: sosCountdown !== null).  An updater function is run      *)
(* either at once (no update pending) or at the render.  A click handler's *)
(* updates are flushed, with all pending ones, when the handler returns.   *)
(* Timer callbacks are a second or more apart, so a render always takes    *)
(* place between two of them.                                              *)
(***************************************************************************)
CountdownStart == 5

\* prev <= 1 in JavaScript: null converts to 0
LeqOne(prev) == prev = Null \/ prev <= 1

\* the updater passed to setSosCountdown by countdown interval id:
\*   prev => { if (prev <= 1) { clearInterval(id); send...Alert(); return null }
\*             return prev - 1 }
\* st = [value, timers, sent]: hook value, live intervals, alerts sent
CountdownUpdater(id, st) ==
    IF LeqOne(st.value)
    THEN [value |-> Null, timers |-> st.timers \ {id}, sent |-> st.sent \cup {id}]
    ELSE [st EXCEPT !.value = @ - 1]

ApplyUpdate(u, st) ==
    IF u.op = "set" THEN [st EXCEPT !.value = u.val]
    ELSE CountdownUpdater(u.id, st)

RECURSIVE ProcessQueue(_, _)
ProcessQueue(q, st) ==
    IF q = << >> THEN st
    ELSE ProcessQueue(Tail(q), ApplyUpdate(Head(q), st))

SetUpdate(v) == [op |-> "set", val |-> v, id |-> Null]
TickUpdate(id) == [op |-> "tick", val |-> Null, id |-> id]

\* apiService.reportEmergency / storeUserLearning requests in flight
ReportMsg(c) == [type |-> "report", cd |-> c, id |-> Null]
LearningMsg(c) == [type |-> "learning", cd |-> c, id |-> Null]

MarkExpired(log, sent) ==
    [c \in DOMAIN log |-> IF c \in sent THEN [log[c] EXCEPT !.expired = TRUE]
                          ELSE log[c]]

\* triggerRealEmergency / triggerEmergency: setSosCountdown(5), setInterval,
\* window.emergencyCountdownInterval = countdownInterval
triggerRealEmergency ==
    /\ cdCount' = cdCount + 1
    /\ updateQueue' = Append(updateQueue, SetUpdate(CountdownStart))
    /\ timers' = timers \cup {cdCount + 1}
    /\ windowInterval' = cdCount + 1

\* processRealSensorData / processSensorData: status is 'emergency' and
\* !activeEmergency && !sosCountdown, so trigger(Real)Emergency runs:
\* setSosCountdown(5), setInterval, window.emergencyCountdownInterval = id
DetectEmergency ==
    /\ cdCount < MaxCountdowns
    /\ updateQueue = << >>
    /\ activeEmergency = Null
    /\ sosCountdown = Null
    /\ triggerRealEmergency
    /\ UNCHANGED << sosCountdown, activeEmergency, net, cdLog,
                    storeVars, learningVars, engineVars, serverVars, tracker, monitor >>

\* the countdown interval fires; its updater is queued for the next render
TickQueued(id) ==
    /\ id \in timers
    /\ updateQueue = << >>
    /\ updateQueue' = Append(updateQueue, TickUpdate(id))
    /\ UNCHANGED << sosCountdown, timers, windowInterval, activeEmergency,
                    cdCount, net, cdLog, storeVars, learningVars, engineVars, serverVars, tracker, monitor >>

\* the countdown interval fires; React runs the updater at once and queues
\* its result (nothing is queued when the value does not change)
TickEager(id) ==
    /\ id \in timers
    /\ updateQueue = << >>
    /\ LET st == CountdownUpdater(id, [value |-> sosCountdown, timers |-> timers,
                                       sent |-> {}])
       IN /\ timers' = st.timers
          /\ net' = net \cup {ReportMsg(c) : c \in st.sent}
          /\ cdLog' = MarkExpired(cdLog, st.sent)
          /\ updateQueue' = IF st.value = sosCountdown THEN updateQueue
                            ELSE Append(updateQueue, SetUpdate(st.value))
    /\ UNCHANGED << sosCountdown, windowInterval, activeEmergency, cdCount,
                    storeVars, learningVars, engineVars, serverVars, tracker, monitor >>

\* React renders: the queued updates are applied in order and committed
Render ==
    /\ updateQueue # << >>
    /\ LET st == ProcessQueue(updateQueue, [value |-> sosCountdown,
                                            timers |-> timers, sent |-> {}])
       IN /\ sosCountdown' = st.value
          /\ timers' = st.timers
          /\ net' = net \cup {ReportMsg(c) : c \in st.sent}
          /\ cdLog' = MarkExpired(cdLog, st.sent)
    /\ updateQueue' = << >>
    /\ UNCHANGED << windowInterval, activeEmergency, cdCount,
                    storeVars, learningVars, engineVars, serverVars, tracker, monitor >>

\* the user clicks CANCEL (rendered while the committed sosCountdown is not
\* null): cancelEmergency clears window.emergencyCountdownInterval, sets
\* sosCountdown to null and stores the false positive
CancelClick ==
    /\ sosCountdown # Null
    /\ LET cleared == IF windowInterval # Null THEN timers \ {windowInterval}
                      ELSE timers
           st == ProcessQueue(Append(updateQueue, SetUpdate(Null)),
                              [value |-> sosCountdown, timers |-> cleared,
                               sent |-> {}])
       IN /\ sosCountdown' = st.value
          /\ timers' = st.timers
          /\ net' = net \cup {ReportMsg(c) : c \in st.sent}
                        \cup {LearningMsg(cdCount)}
          /\ cdLog' = [MarkExpired(cdLog, st.sent) EXCEPT ![cdCount].cancelled = TRUE]
    /\ windowInterval' = Null
    /\ updateQueue' = << >>
    /\ UNCHANGED << activeEmergency, cdCount, storeVars, learningVars, engineVars, serverVars, tracker, monitor >>

\* POST /emergency/report served for a client request: the record is added
\* with status active (or the store write fails and the route answers 500)
ServeReport(m) ==
    /\ m \in net /\ m.type = "report"
    /\ \/ /\ emergencies' = Append(emergencies, EmergencyDoc(FALSE, m.cd))
          /\ net' = (net \ {m}) \cup
                      {[type |-> "reportOk", cd |-> m.cd, id |-> Len(emergencies) + 1]}
          /\ cdLog' = cdLog
       \/ /\ emergencies' = emergencies
          /\ net' = (net \ {m}) \cup {[type |-> "reportErr", cd |-> m.cd, id |-> Null]}
          /\ cdLog' = [cdLog EXCEPT ![m.cd].failed = TRUE]
    /\ UNCHANGED << users, learning_data, emergency_contacts, sos_events,
                    sosCountdown, updateQueue, timers, windowInterval,
                    activeEmergency, cdCount, learningVars, engineVars, serverVars, tracker, monitor >>

\* POST /users/learning/:userId served for a client request
ServeLearning(m) ==
    /\ m \in net /\ m.type = "learning"
    /\ learning_data' = Append(learning_data,
                               [outcome |-> "false_positive",
                                emergencyId |-> Null, cd |-> m.cd])
    /\ users' = IF users.exists
                THEN [users EXCEPT !.hasThresholds = TRUE,
                                   !.adaptiveThresholds =
                                       AdjustThresholds(CurrentThresholds(users),
                                                        "false_positive")]
                ELSE users
    /\ net' = (net \ {m}) \cup {[type |-> "learningOk", cd |-> m.cd, id |-> Null]}
    /\ UNCHANGED << emergencies, emergency_contacts, sos_events,
                    sosCountdown, updateQueue, timers, windowInterval,
                    activeEmergency, cdCount, cdLog, learningVars, engineVars, serverVars, tracker, monitor >>

\* the client receives the answer: if (response.success) setActiveEmergency(...)
ClientResponse(m) ==
    /\ m \in net /\ m.type \in {"reportOk", "reportErr", "learningOk"}
    /\ net' = net \ {m}
    /\ activeEmergency' = IF m.type = "reportOk" THEN m.id ELSE activeEmergency
    /\ UNCHANGED << sosCountdown, updateQueue, timers, windowInterval, cdCount,
                    cdLog, storeVars, learningVars, engineVars, serverVars, tracker, monitor >>

InitCountdown ==
    /\ users = [exists |-> TRUE, hasThresholds |-> FALSE,
                adaptiveThresholds |-> DefaultThresholds]
    /\ users0 = users
    /\ lreq = [r \in LearningReqs |-> IdleLearningReq]
    /\ InitStoreEmpty
    /\ InitServerIdle
    /\ InitClientIdle
    /\ InitEngineIdle

Messages == [type : {"report", "learning", "reportOk", "reportErr", "learningOk"},
             cd : 1 .. MaxCountdowns, id : {Null} \cup (1 .. MaxCountdowns)]

NextCountdown ==
    \/ DetectEmergency
    \/ \E id \in 1 .. MaxCountdowns : TickQueued(id) \/ TickEager(id)
    \/ Render
    \/ CancelClick
    \/ \E m \in Messages : ServeReport(m) \/ ServeLearning(m) \/ ClientResponse(m)

SpecCountdown == InitCountdown /\ [][NextCountdown]_vars

(***************************************************************************)
(* Client: the detection effect and its timing.  The effect depends on     *)
(* sensorData.motion (SensorContext.js: on sensorData); each reading is a  *)
(* new object, so the render that follows a reading runs the effect's      *)
(* cleanup, clearInterval(interval), and the effect again, a new           *)
(* setInterval(processRealSensorData, 2000).  Time is counted in units of  *)
(* 250 ms, the period at which RealSensorManager hands over readings.      *)
(***************************************************************************)
EvalTicks == 8

\* the motion callback: setSensorData(prev => ({ ...prev, motion })), then
\* the effect is run again and its interval starts anew
MotionReading ==
    /\ monitor.mode = "arriving"
    /\ monitor' = [monitor EXCEPT !.elapsed = 0, !.sinceReading = 0]
    /\ UNCHANGED << storeVars, learningVars, serverVars, clientVars, engineVars,
                    tracker >>

\* 250 ms pass; while readings arrive, not without the next reading
TimePasses ==
    /\ monitor.elapsed < EvalTicks
    /\ monitor.mode = "arriving" => monitor.sinceReading = 0
    /\ monitor' = [monitor EXCEPT !.elapsed = @ + 1, !.sinceReading = 1]
    /\ UNCHANGED << storeVars, learningVars, serverVars, clientVars, engineVars,
                    tracker >>

\* the device stops delivering readings (sensorData.motion keeps the last)
ReadingsStop ==
    /\ monitor.mode = "arriving"
    /\ monitor' = [monitor EXCEPT !.mode = "stopped"]
    /\ UNCHANGED << storeVars, learningVars, serverVars, clientVars, engineVars,
                    tracker >>

\* the interval fires after 2000 ms: processRealSensorData finds the status
\* 'emergency' and, if (!activeEmergency && !sosCountdown), triggers
LoopEvaluate ==
    /\ monitor.elapsed >= EvalTicks
    /\ updateQueue = << >>
    /\ monitor' = [monitor EXCEPT !.elapsed = 0]
    /\ IF cdCount < MaxCountdowns /\ activeEmergency = Null /\ sosCountdown = Null
       THEN triggerRealEmergency
       ELSE UNCHANGED << cdCount, updateQueue, timers, windowInterval >>
    /\ UNCHANGED << sosCountdown, activeEmergency, net, cdLog,
                    storeVars, learningVars, engineVars, serverVars, tracker >>

\* monitoring is on and the last reading classifies as emergency; readings
\* are arriving or have stopped
InitLoop ==
    /\ users = [exists |-> TRUE, hasThresholds |-> FALSE,
                adaptiveThresholds |-> DefaultThresholds]
    /\ users0 = users
    /\ lreq = [r \in LearningReqs |-> IdleLearningReq]
    /\ InitStoreEmpty
    /\ InitServerIdle
    /\ sosCountdown = Null
    /\ updateQueue = << >>
    /\ timers = {}
    /\ windowInterval = Null
    /\ activeEmergency = Null
    /\ cdCount = 0
    /\ net = {}
    /\ cdLog = [c \in 1 .. MaxCountdowns |->
                 [cancelled |-> FALSE, expired |-> FALSE, failed |-> FALSE,
                  manual |-> FALSE]]
    /\ tracker = IdleTracker
    /\ monitor \in {[IdleMonitor EXCEPT !.mode = m] : m \in {"arriving", "stopped"}}
    /\ InitEngineIdle

NextLoop ==
    \/ MotionReading
    \/ TimePasses
    \/ ReadingsStop
    \/ LoopEvaluate
    \/ \E id \in 1 .. MaxCountdowns : TickQueued(id) \/ TickEager(id)
    \/ Render
    \/ CancelClick
    \/ \E m \in Messages : ServeReport(m) \/ ServeLearning(m) \/ ClientResponse(m)

SpecLoop == InitLoop /\ [][NextLoop]_vars

\* readings keep arriving while the device delivers them, time passes, the
\* interval's callback runs when it is due and React renders
FairSpecLoop ==
    /\ SpecLoop
    /\ WF_vars(MotionReading)
    /\ WF_vars(TimePasses)
    /\ WF_vars(LoopEvaluate)
    /\ WF_vars(Render)

\* C28: while emergency readings keep arriving, a countdown eventually
\* starts: the 2-second evaluation is not put off forever by new readings
C28_CountdownEventuallyStarts ==
    (monitor.mode = "arriving") ~> (monitor.mode = "stopped" \/ cdCount > 0)

(***************************************************************************)
(* Client: the manual triggers.  triggerManualEmergency (SensorContext.js) *)
(* hands a mock score to triggerEmergency; sendManualAlert (RealDashboard) *)
(* posts the report itself with manual: true.                              *)
(***************************************************************************)
MaxManualAlerts == 1

ManualReportMsg == [type |-> "manualReport", cd |-> Null, id |-> Null]

\* the user clicks 'Trigger Test Emergency': triggerEmergency(mockScore, ...)
\* runs setSosCountdown(5), setInterval and overwrites
\* window.emergencyCountdownInterval, whatever countdown is running; the
\* click handler's update is flushed with the pending ones
TriggerManualEmergency ==
    /\ cdCount < MaxCountdowns
    /\ LET id == cdCount + 1
           st == ProcessQueue(Append(updateQueue, SetUpdate(CountdownStart)),
                              [value |-> sosCountdown, timers |-> timers \cup {id},
                               sent |-> {}])
       IN /\ sosCountdown' = st.value
          /\ timers' = st.timers
          /\ net' = net \cup {ReportMsg(c) : c \in st.sent}
          /\ cdLog' = [MarkExpired(cdLog, st.sent) EXCEPT ![id].manual = TRUE]
          /\ windowInterval' = id
          /\ cdCount' = id
    /\ updateQueue' = << >>
    /\ UNCHANGED << activeEmergency, storeVars, learningVars, engineVars, serverVars, tracker, monitor >>

\* the user clicks 'Manual Alert' (disabled while sendingManualAlert):
\* apiService.reportEmergency({ ..., confidence: 100, manual: true })
SendManualAlert ==
    /\ ManualReportMsg \notin net
    /\ Cardinality({id \in DOMAIN emergencies : emergencies[id].manual}) < MaxManualAlerts
    /\ net' = net \cup {ManualReportMsg}
    /\ UNCHANGED << sosCountdown, updateQueue, timers, windowInterval,
                    activeEmergency, cdCount, cdLog,
                    storeVars, learningVars, engineVars, serverVars, tracker, monitor >>

\* POST /emergency/report served for sendManualAlert, and its answer shown:
\* the record is added with manual true (or the write fails: status 500);
\* finally setSendingManualAlert(false)
ServeManualReport ==
    /\ ManualReportMsg \in net
    /\ \/ emergencies' = Append(emergencies, EmergencyDoc(TRUE, Null))
       \/ emergencies' = emergencies
    /\ net' = net \ {ManualReportMsg}
    /\ UNCHANGED << users, learning_data, emergency_contacts, sos_events,
                    sosCountdown, updateQueue, timers, windowInterval,
                    activeEmergency, cdCount, cdLog,
                    learningVars, engineVars, serverVars, tracker, monitor >>

NextClient ==
    \/ NextCountdown
    \/ TriggerManualEmergency
    \/ SendManualAlert
    \/ ServeManualReport

SpecClient == InitCountdown /\ [][NextClient]_vars

\* C14: no countdown is ever started by a manual trigger, and a record
\* made by a manual trigger comes from no countdown
C14_ManualSkipsCountdown ==
    /\ \A c \in 1 .. cdCount : ~ cdLog[c].manual
    /\ \A id \in DOMAIN emergencies :
          emergencies[id].manual => emergencies[id].cd = Null

\* C24: at most one countdown interval is live at any time, and once
\* cancelEmergency has run (the stored handle is null again) no interval
\* is left that could tick and send a report
C24_OneTimerCancelStopsAll ==
    /\ Cardinality(timers) <= 1
    /\ windowInterval = Null => timers = {}

\* C30: while the report of countdown c is in flight or its answer not yet
\* taken in, no later countdown has been started; and as long as the user
\* cancels nothing, at most one EmergencyRecord is created
C30_OneCountdownPerEmergency ==
    /\ \A m \in net : m.type \in {"report", "reportOk"} => cdCount = m.cd
    /\ (\A c \in 1 .. MaxCountdowns : ~ cdLog[c].cancelled)
          => Cardinality(DOMAIN emergencies) <= 1

\* records produced for countdown c
LearningRecordsOf(c) ==
    {i \in DOMAIN learning_data :
        learning_data[i].cd = c /\ learning_data[i].outcome = "false_positive"}
EmergencyRecordsOf(c) == {i \in DOMAIN emergencies : emergencies[i].cd = c}

\* countdown c is over and nothing of it is pending
Settled(c) ==
    /\ c <= cdCount
    /\ c \notin timers
    /\ updateQueue = << >>
    /\ \A m \in net : m.cd # c
    /\ cdLog[c].cancelled \/ cdLog[c].expired

(***************************************************************************)
(* C2 (as claimed): for one countdown, whatever the interleaving of the    *)
(* user's cancel with the countdown's final tick, the system never has     *)
(* both a false_positive LearningRecord and an EmergencyRecord of it.      *)
(***************************************************************************)
C2_NeverCancelAndReport ==
    \A c \in 1 .. MaxCountdowns :
        ~ (LearningRecordsOf(c) # {} /\ EmergencyRecordsOf(c) # {})

(***************************************************************************)
(* C3 (as claimed): every countdown ends in exactly one of two outcomes:   *)
(* cancelled, with exactly one false_positive LearningRecord and no        *)
(* EmergencyRecord; or expired without a cancel, with exactly one          *)
(* EmergencyRecord of status active and no LearningRecord.  (Countdowns    *)
(* whose report the store refused are left out.)                           *)
(***************************************************************************)
C3_ExactlyOneOutcome ==
    \A c \in 1 .. MaxCountdowns :
        (Settled(c) /\ ~ cdLog[c].failed) =>
            \/ /\ cdLog[c].cancelled
               /\ Cardinality(LearningRecordsOf(c)) = 1
               /\ EmergencyRecordsOf(c) = {}
            \/ /\ ~ cdLog[c].cancelled /\ cdLog[c].expired
               /\ Cardinality(EmergencyRecordsOf(c)) = 1
               /\ \A i \in EmergencyRecordsOf(c) : emergencies[i].status = "active"
               /\ LearningRecordsOf(c) = {}


(***************************************************************************)
(* Server: POST /emergency/report (routes/emergency.js) and                *)
(* sendEmergencyAlert (services/emergencyNotificationService.js).          *)
(* Each action is the code between two awaits.                             *)
(***************************************************************************)
AdminEmail == "kanijayachandran25@gmail.com"

\* emails of emergency_contacts rows ("" is a row without an email)
ContactEmails == {AdminEmail, "a@example.org", "b@example.org", ""}

AdminRecipient == [email |-> AdminEmail, type |-> "admin"]

\* const recipients = [admin]; contactsSnapshot.forEach(doc => { if
\* (contact.email && contact.email !== admin) recipients.push(...) })
RECURSIVE ContactRecipients(_)
ContactRecipients(rows) ==
    IF rows = << >> THEN << >>
    ELSE IF Head(rows) # "" /\ Head(rows) # AdminEmail
         THEN << [email |-> Head(rows), type |-> "emergency_contact"] >>
                  \o ContactRecipients(Tail(rows))
         ELSE ContactRecipients(Tail(rows))

\* variant: every contact row becomes a recipient
BuildRecipientsUnfiltered(rows) ==
    << AdminRecipient >>
        \o [i \in DOMAIN rows |-> [email |-> rows[i], type |-> "emergency_contact"]]

BuildRecipients(rows) == << AdminRecipient >> \o ContactRecipients(rows)

\* sos_events rows with userId == userId and status == 'active'
ActiveSosEvents == {i \in DOMAIN sos_events : sos_events[i].status = "active"}

\* .limit(1).get(): the snapshots the query may return, each a set of row
\* ids: any one matching row, or the empty snapshot when none matches
Limit1(matching) ==
    IF matching = {} THEN {{}} ELSE {{i} : i \in matching}

\* docs.sort((a, b) => bTime - aTime)[0].updatedAt over the snapshot's docs,
\* null for an empty snapshot
LatestOf(docs) ==
    IF docs = {} THEN Null
    ELSE sos_events[CHOOSE i \in docs :
                       \A j \in docs : sos_events[j].updatedAt <= sos_events[i].updatedAt
                   ].updatedAt

\* the request arrives; manual and location come from its body
ReportReceive(r) ==
    /\ ereq[r].pc = "idle"
    /\ \E manual \in BOOLEAN, location \in {Null, RequestLocation, NullCoordsLocation} :
          ereq' = [ereq EXCEPT ![r] = [@ EXCEPT !.pc = "write",
                                                !.manual = manual,
                                                !.locationData = location]]
    /\ UNCHANGED << storeVars, learningVars, engineVars, calls, clientVars, tracker, monitor >>

\* const docRef = await db.collection('emergencies').add(emergencyData);
\* a store error is caught by the route's catch: status 500
ReportWrite(r) ==
    /\ ereq[r].pc = "write"
    /\ \/ /\ emergencies' = Append(emergencies, EmergencyDoc(ereq[r].manual, Null))
          /\ ereq' = [ereq EXCEPT ![r] = [@ EXCEPT !.pc = "notify",
                                                   !.docId = Len(emergencies) + 1]]
       \/ /\ emergencies' = emergencies
          /\ ereq' = [ereq EXCEPT ![r] = [@ EXCEPT !.pc = "respond",
                                                   !.response = "error500"]]
    /\ UNCHANGED << users, learning_data, emergency_contacts, sos_events,
                    learningVars, engineVars, calls, clientVars, tracker, monitor >>

\* variant: a throw of sendEmergencyNotifications reaches the route's catch
ReportNotifyUncaught(r) ==
    /\ ereq[r].pc = "notify"
    /\ \/ ereq' = [ereq EXCEPT ![r] = [@ EXCEPT !.pc = "contacts",
                                                !.notified = "sent"]]
       \/ ereq' = [ereq EXCEPT ![r] = [@ EXCEPT !.pc = "respond",
                                                !.notified = "threw",
                                                !.response = "error500"]]
    /\ UNCHANGED << storeVars, learningVars, engineVars, calls, clientVars, tracker, monitor >>

\* io.emit; try { await sendEmergencyNotifications(...) } catch { log }:
\* whether it returns or throws, the route goes on to sendEmergencyAlert
ReportNotify(r) ==
    /\ ereq[r].pc = "notify"
    /\ \E outcome \in {"sent", "threw"} :
          ereq' = [ereq EXCEPT ![r] = [@ EXCEPT !.pc = "contacts",
                                                !.notified = outcome]]
    /\ UNCHANGED << storeVars, learningVars, engineVars, calls, clientVars, tracker, monitor >>

\* variant: no early return for an empty contacts snapshot
AlertContactsAdminOnly(r) ==
    /\ ereq[r].pc = "contacts"
    /\ \/ ereq' = [ereq EXCEPT ![r] = [@ EXCEPT !.pc = "respond", !.alert = "error"]]
       \/ ereq' = [ereq EXCEPT ![r] =
             IF ereq[r].locationData = Null
             THEN [@ EXCEPT !.pc = "location"]
             ELSE [@ EXCEPT !.pc = "send",
                            !.recipients = BuildRecipients(emergency_contacts),
                            !.total = Len(BuildRecipients(emergency_contacts))]]
    /\ UNCHANGED << storeVars, learningVars, engineVars, calls, clientVars, tracker, monitor >>

\* sendEmergencyAlert: the emergency_contacts query returned (or threw, which
\* the function's catch turns into { success: false }).  An empty snapshot
\* returns 'No emergency contacts configured'.  With a location at hand the
\* recipient list is built at once.
AlertContacts(r) ==
    /\ ereq[r].pc = "contacts"
    /\ \/ ereq' = [ereq EXCEPT ![r] = [@ EXCEPT !.pc = "respond", !.alert = "error"]]
       \/ ereq' = [ereq EXCEPT ![r] =
             IF emergency_contacts = << >>
             THEN [@ EXCEPT !.pc = "respond", !.alert = "no_contacts"]
             ELSE IF ereq[r].locationData = Null
             THEN [@ EXCEPT !.pc = "location"]
             ELSE [@ EXCEPT !.pc = "send",
                            !.recipients = BuildRecipients(emergency_contacts),
                            !.total = Len(BuildRecipients(emergency_contacts))]]
    /\ UNCHANGED << storeVars, learningVars, engineVars, calls, clientVars, tracker, monitor >>

\* if (!locationData): sos_events where userId, status == 'active', limit(1);
\* the one document returned is sorted (alone) and docs[0] is used; an empty
\* snapshot or a query error leaves locationData null.  Then the recipient
\* list is built.
AlertLocation(r) ==
    /\ ereq[r].pc = "location"
    /\ \/ \E docs \in Limit1(ActiveSosEvents) :
             ereq' = [ereq EXCEPT ![r] =
                        [@ EXCEPT !.pc = "send",
                                  !.lookedUp = TRUE,
                                  !.locationData = LatestOf(docs),
                                  !.recipients = BuildRecipients(emergency_contacts),
                                  !.total = Len(BuildRecipients(emergency_contacts))]]
       \/ \* the query threw: caught and logged, locationData stays null
          ereq' = [ereq EXCEPT ![r] =
                     [@ EXCEPT !.pc = "send",
                               !.lookedUp = TRUE,
                               !.recipients = BuildRecipients(emergency_contacts),
                               !.total = Len(BuildRecipients(emergency_contacts))]]
    /\ UNCHANGED << storeVars, learningVars, engineVars, calls, clientVars, tracker, monitor >>

\* variant: the try/catch is around the loop, so a rejected send ends it
AlertSendAbortOnFailure(r) ==
    /\ ereq[r].pc = "send"
    /\ ~ ereq[r].hung
    /\ LET i == Len(ereq[r].details) + 1
           last == i = Len(ereq[r].recipients)
           rcpt == ereq[r].recipients[i]
           section == RenderSection(ereq[r].locationData)
       IN \/ /\ section # "threw"
             /\ ereq' = [ereq EXCEPT ![r] =
                 [@ EXCEPT !.successful = @ + 1,
                           !.details = Append(@, [recipient |-> rcpt.email,
                                                  status |-> "sent",
                                                  section |-> section]),
                           !.pc = IF last THEN "respond" ELSE "send",
                           !.alert = IF last THEN "sent" ELSE "none"]]
          \/ ereq' = [ereq EXCEPT ![r] =
                 [@ EXCEPT !.failed = @ + 1,
                           !.details = Append(@, [recipient |-> rcpt.email,
                                                  status |-> "failed",
                                                  section |-> section]),
                           !.pc = "respond",
                           !.alert = "sent"]]
          \/ /\ section # "threw"
             /\ ereq' = [ereq EXCEPT ![r].hung = TRUE]
    /\ UNCHANGED << storeVars, learningVars, engineVars, calls, clientVars, tracker, monitor >>

\* one iteration of for (const recipient of recipients): render the message
\* (a throw is caught inside the loop: failed++), await transporter.sendMail;
\* it resolves (successful++), rejects (failed++, caught inside the loop) or
\* never settles.  After the last recipient the function returns
\* { success: true, emailResults }.
AlertSend(r) ==
    /\ ereq[r].pc = "send"
    /\ ~ ereq[r].hung
    /\ LET i == Len(ereq[r].details) + 1
           last == i = Len(ereq[r].recipients)
           rcpt == ereq[r].recipients[i]
           section == RenderSection(ereq[r].locationData)
       IN \/ /\ section # "threw"
             /\ ereq' = [ereq EXCEPT ![r] =
                 [@ EXCEPT !.successful = @ + 1,
                           !.details = Append(@, [recipient |-> rcpt.email,
                                                  status |-> "sent",
                                                  section |-> section]),
                           !.pc = IF last THEN "respond" ELSE "send",
                           !.alert = IF last THEN "sent" ELSE "none"]]
          \/ ereq' = [ereq EXCEPT ![r] =
                 [@ EXCEPT !.failed = @ + 1,
                           !.details = Append(@, [recipient |-> rcpt.email,
                                                  status |-> "failed",
                                                  section |-> section]),
                           !.pc = IF last THEN "respond" ELSE "send",
                           !.alert = IF last THEN "sent" ELSE "none"]]
          \/ /\ section # "threw"
             /\ ereq' = [ereq EXCEPT ![r].hung = TRUE]
    /\ UNCHANGED << storeVars, learningVars, engineVars, calls, clientVars, tracker, monitor >>

\* res.json({ success: true, emergencyId: docRef.id, ... }), or the 500 of
\* the route's catch
ReportRespond(r) ==
    /\ ereq[r].pc = "respond"
    /\ ereq' = [ereq EXCEPT ![r] =
                  IF ereq[r].response = "none"
                  THEN [@ EXCEPT !.pc = "done", !.response = "success",
                                 !.emergencyId = ereq[r].docId]
                  ELSE [@ EXCEPT !.pc = "done"]]
    /\ UNCHANGED << storeVars, learningVars, engineVars, calls, clientVars, tracker, monitor >>

ReportStep(r) ==
    \/ ReportReceive(r)
    \/ ReportWrite(r)
    \/ ReportNotify(r)
    \/ AlertContacts(r)
    \/ AlertLocation(r)
    \/ AlertSend(r)
    \/ ReportRespond(r)

\* the user's emergency_contacts rows: up to MaxContacts rows
RECURSIVE SeqsUpTo(_, _)
SeqsUpTo(S, n) ==
    IF n = 0 THEN {<< >>}
    ELSE LET shorter == SeqsUpTo(S, n - 1)
         IN shorter \cup {Append(q, x) : q \in shorter, x \in S}

ContactConfigs == SeqsUpTo(ContactEmails, MaxContacts)

\* the user's sos_events rows: one per monitoring session, left active by
\* stopTracking or resolved by resolveSOS; row i was last written at time i
SosConfigs ==
    UNION {[1 .. n -> {[status |-> st, updatedAt |-> 0, severity |-> "normal"] : st \in {"active", "resolved"}}]
               : n \in 0 .. MaxSosEvents}

StampRows(rows) == [i \in DOMAIN rows |-> [rows[i] EXCEPT !.updatedAt = i]]

InitDispatch ==
    /\ users = [exists |-> TRUE, hasThresholds |-> FALSE,
                adaptiveThresholds |-> DefaultThresholds]
    /\ users0 = users
    /\ lreq = [r \in LearningReqs |-> IdleLearningReq]
    /\ learning_data = << >>
    /\ emergencies = << >>
    /\ emergency_contacts \in ContactConfigs
    /\ \E rows \in SosConfigs : sos_events = StampRows(rows)
    /\ InitServerIdle
    /\ InitClientIdle
    /\ InitEngineIdle

\* one report request, from its arrival to its response
NextDispatch == ReportStep(1)

SpecDispatch == InitDispatch /\ [][NextDispatch]_vars

\* Node's event loop runs every continuation that is ready
FairSpecDispatch == SpecDispatch /\ WF_vars(ReportStep(1))

\* the sendEmergencyAlert call of request r has returned a result
AlertReturned(r) == ereq[r].alert \in {"no_contacts", "sent"}

\* C5 (as claimed): for a user with zero emergency contacts the recipient
\* list is exactly the admin entry, and the alert is dispatched to it
C5_AdminAlwaysAlerted ==
    \A r \in ReportReqs :
        (emergency_contacts = << >> /\ AlertReturned(r))
            => /\ ereq[r].recipients = << AdminRecipient >>
               /\ Len(ereq[r].details) = 1

\* C5 (amended): for a user with zero emergency contacts no recipient list
\* is built and nothing is sent, not even to the admin: the call returns
\* 'No emergency contacts configured'.  A recipient list that is built
\* starts with the admin entry, so it is never empty when sending starts.
C5_NoContactsNoAlert ==
    \A r \in ReportReqs :
        /\ emergency_contacts = << >>
              => /\ ereq[r].recipients = << >>
                 /\ ereq[r].details = << >>
                 /\ ereq[r].alert \in {"none", "no_contacts", "error"}
                 /\ ereq[r].pc \notin {"location", "send"}
        /\ ereq[r].pc = "send"
              => /\ ereq[r].recipients # << >>
                 /\ ereq[r].recipients[1] = AdminRecipient

C5_Witness ==
    \E r \in ReportReqs :
        /\ emergency_contacts = << >>
        /\ ereq[r].pc = "done"
        /\ ereq[r].alert = "no_contacts"

\* the updatedAt of the user's most recently updated active sos_events row
LatestActive ==
    CHOOSE t \in {sos_events[i].updatedAt : i \in ActiveSosEvents} :
        \A i \in ActiveSosEvents : sos_events[i].updatedAt <= t

\* C6: a location taken from the store is that of the user's active
\* location row with the greatest updatedAt
C6_LatestActiveLocation ==
    \A r \in ReportReqs :
        (ereq[r].lookedUp /\ ereq[r].locationData # Null)
            => ereq[r].locationData = LatestActive

\* C7: once the EmergencyRecord is persisted the caller eventually gets its
\* response, whatever the recipient sends do
C7_ResponseNotBlocked ==
    \A r \in ReportReqs :
        (ereq[r].docId # Null) ~> (ereq[r].pc = "done")

\* C8: a persisted EmergencyRecord stays in the store with status 'active'
\* and the caller's response is the success response carrying its id,
\* whatever became of the notification, the recipient resolution or the sends
C8_RecordSurvivesDispatch ==
    \A r \in ReportReqs :
        ereq[r].docId # Null
            => /\ ereq[r].docId \in DOMAIN emergencies
               /\ emergencies[ereq[r].docId].status = "active"
               /\ ereq[r].response \in {"none", "success"}
               /\ ereq[r].pc = "done"
                     => /\ ereq[r].response = "success"
                        /\ ereq[r].emergencyId = ereq[r].docId

C8_Witness ==
    \E r \in ReportReqs :
        /\ ereq[r].pc = "done"
        /\ ereq[r].response = "success"
        /\ ereq[r].notified = "threw"
        /\ \/ ereq[r].alert = "error"
           \/ ereq[r].alert = "sent" /\ ereq[r].successful = 0

\* C9: the send loop records one outcome per recipient, in the list's
\* order; the counters count those outcomes; and a summary that is returned
\* has successful + failed = total = the number of recipients
C9_OneOutcomePerRecipient ==
    \A r \in ReportReqs :
        LET q == ereq[r]
        IN /\ Len(q.details) <= Len(q.recipients)
           /\ \A j \in DOMAIN q.details :
                 /\ q.details[j].recipient = q.recipients[j].email
                 /\ q.details[j].status \in {"sent", "failed"}
           /\ q.successful =
                 Cardinality({j \in DOMAIN q.details : q.details[j].status = "sent"})
           /\ q.failed =
                 Cardinality({j \in DOMAIN q.details : q.details[j].status = "failed"})
           /\ q.total = Len(q.recipients)
           /\ q.alert = "sent"
                 => /\ Len(q.details) = q.total
                    /\ q.successful + q.failed = q.total

C9_Witness ==
    \E r \in ReportReqs :
        /\ ereq[r].alert = "sent"
        /\ ereq[r].total = 3
        /\ ereq[r].successful = 2
        /\ ereq[r].failed = 1
        /\ ereq[r].details[2].status = "failed"

\* C10: a dispatch that has started sending always comes to its end, with
\* every recipient counted: successful + failed = total
C10_DispatchTerminates ==
    \A r \in ReportReqs :
        (ereq[r].pc = "send")
            ~> (ereq[r].alert = "sent"
                   /\ ereq[r].successful + ereq[r].failed = ereq[r].total)

\* a contact row that gets an entry of its own: its email is set and is not
\* the operator's
Qualifies(email) == email # "" /\ email # AdminEmail

\* the list q is the admin entry followed by one emergency_contact entry
\* for each qualifying contact row, in the rows' order
IsResolvedFrom(q, rows) ==
    /\ Len(q) = 1 + Len(SelectSeq(rows, Qualifies))
    /\ q[1] = AdminRecipient
    /\ Cardinality({j \in DOMAIN q : q[j].email = AdminEmail}) = 1
    /\ \A j \in 2 .. Len(q) :
          q[j] = [email |-> SelectSeq(rows, Qualifies)[j - 1],
                  type |-> "emergency_contact"]

\* C21 (as claimed): for any contact rows, none included, the recipient
\* list is resolved as the admin entry plus the qualifying contacts
C21_RecipientListAnyRows ==
    \A r \in ReportReqs :
        (ereq[r].pc = "send" \/ AlertReturned(r))
            => IsResolvedFrom(ereq[r].recipients, emergency_contacts)

\* C21 (amended): whenever a recipient list is resolved, which takes at
\* least one contact row, it is the admin entry, once and first, plus one
\* emergency_contact entry for each qualifying contact row
C21_RecipientListOfContacts ==
    \A r \in ReportReqs :
        /\ ereq[r].recipients # << >>
              => IsResolvedFrom(ereq[r].recipients, emergency_contacts)
        /\ (ereq[r].pc = "send" \/ ereq[r].alert = "sent")
              => ereq[r].recipients # << >>

C21_Witness ==
    \E r \in ReportReqs :
        /\ Len(emergency_contacts) = 3
        /\ \E i \in DOMAIN emergency_contacts : emergency_contacts[i] = AdminEmail
        /\ Len(ereq[r].recipients) = 3
        /\ ereq[r].recipients[1] = AdminRecipient

\* C27: an alert without a usable location (none in the request, or one
\* with null coordinates, and no active sos_events row or a lookup that
\* found nothing) renders every message with the location-unavailable
\* section, so that no recipient fails for want of a location
C27_MissingLocationStillSends ==
    \A r \in ReportReqs :
        ( /\ ereq[r].locationData \in {Null, NullCoordsLocation}
          /\ ActiveSosEvents = {} \/ ereq[r].lookedUp )
            => \A j \in DOMAIN ereq[r].details :
                  ereq[r].details[j].section = "unavailable"

(***************************************************************************)
(* Server: POST /emergency/cancel/:emergencyId and                         *)
(* POST /emergency/resolve/:emergencyId (routes/emergency.js).             *)
(***************************************************************************)
\* ids a request may name: those the reports can create and one that no
\* document has
EmergencyIds == 1 .. MaxReports + 1

\* the cancel request arrives: emergencyId from the path, req.user.uid from
\* the token, sensorSnapshot from the body
CancelReceive(k) ==
    /\ calls[k].pc = "idle"
    /\ \E id \in EmergencyIds, uid \in Users, snap \in BOOLEAN :
          calls' = [calls EXCEPT ![k] = [@ EXCEPT !.kind = "cancel",
                                                  !.pc = "get",
                                                  !.target = id,
                                                  !.caller = uid,
                                                  !.sensorSnapshot = snap]]
    /\ UNCHANGED << storeVars, learningVars, engineVars, ereq, clientVars, tracker, monitor >>

\* const emergencyDoc = await ...doc(emergencyId).get(); 404 if it does not
\* exist, 403 if emergencyData.userId !== userId.  The status is not read.
CancelGet(k) ==
    /\ calls[k].kind = "cancel"
    /\ calls[k].pc = "get"
    /\ calls' = [calls EXCEPT ![k] =
          IF calls[k].target \notin DOMAIN emergencies
          THEN [@ EXCEPT !.pc = "done", !.response = "error404"]
          ELSE IF emergencies[calls[k].target].userId # calls[k].caller
          THEN [@ EXCEPT !.pc = "done", !.response = "error403"]
          ELSE [@ EXCEPT !.pc = "update"]]
    /\ UNCHANGED << storeVars, learningVars, engineVars, ereq, clientVars, tracker, monitor >>

\* variant: set() in place of update(), the other fields are lost
CancelUpdateSet(k) ==
    /\ calls[k].kind = "cancel"
    /\ calls[k].pc = "update"
    /\ emergencies' = [emergencies EXCEPT ![calls[k].target] =
                          [@ EXCEPT !.status = "cancelled",
                                    !.cancelReason = "reason",
                                    !.resolved = TRUE,
                                    !.createdAt = Null,
                                    !.breakdown = "undefined"]]
    /\ calls' = [calls EXCEPT ![k].pc =
                    IF calls[k].sensorSnapshot THEN "learn" ELSE "respond"]
    /\ UNCHANGED << users, learning_data, emergency_contacts, sos_events,
                    learningVars, engineVars, ereq, clientVars, tracker, monitor >>

\* await ...doc(emergencyId).update({ status: 'cancelled', cancelledAt,
\* cancelReason: reason, resolved: true })
CancelUpdate(k) ==
    /\ calls[k].kind = "cancel"
    /\ calls[k].pc = "update"
    /\ emergencies' = [emergencies EXCEPT ![calls[k].target] =
                          [@ EXCEPT !.status = "cancelled",
                                    !.cancelReason = "reason",
                                    !.resolved = TRUE]]
    /\ calls' = [calls EXCEPT ![k].pc =
                    IF calls[k].sensorSnapshot THEN "learn" ELSE "respond"]
    /\ UNCHANGED << users, learning_data, emergency_contacts, sos_events,
                    learningVars, engineVars, ereq, clientVars, tracker, monitor >>

\* if (sensorSnapshot) await db.collection('learning_data').add({ userId,
\* emergencyId, sensorSnapshot, outcome: 'false_positive', timestamp })
CancelLearn(k) ==
    /\ calls[k].kind = "cancel"
    /\ calls[k].pc = "learn"
    /\ learning_data' = Append(learning_data,
                               [outcome |-> "false_positive",
                                emergencyId |-> calls[k].target,
                                cd |-> Null])
    /\ calls' = [calls EXCEPT ![k].pc = "respond"]
    /\ UNCHANGED << users, emergencies, emergency_contacts, sos_events,
                    learningVars, engineVars, ereq, clientVars, tracker, monitor >>

\* the resolve request arrives; the route reads neither the document nor
\* its owner
ResolveReceive(k) ==
    /\ calls[k].pc = "idle"
    /\ \E id \in EmergencyIds, uid \in Users :
          calls' = [calls EXCEPT ![k] = [@ EXCEPT !.kind = "resolve",
                                                  !.pc = "update",
                                                  !.target = id,
                                                  !.caller = uid]]
    /\ UNCHANGED << storeVars, learningVars, engineVars, ereq, clientVars, tracker, monitor >>

\* await ...doc(emergencyId).update({ status: 'resolved', resolvedAt,
\* resolvedBy, resolutionNotes: notes, resolved: true }); update() of a
\* missing document rejects and the route's catch answers 500
ResolveUpdate(k) ==
    /\ calls[k].kind = "resolve"
    /\ calls[k].pc = "update"
    /\ IF calls[k].target \in DOMAIN emergencies
       THEN /\ emergencies' = [emergencies EXCEPT ![calls[k].target] =
                                  [@ EXCEPT !.status = "resolved",
                                            !.resolutionNotes = "notes",
                                            !.resolved = TRUE]]
            /\ calls' = [calls EXCEPT ![k].pc = "respond"]
       ELSE /\ emergencies' = emergencies
            /\ calls' = [calls EXCEPT ![k] =
                            [@ EXCEPT !.pc = "done", !.response = "error500"]]
    /\ UNCHANGED << users, learning_data, emergency_contacts, sos_events,
                    learningVars, engineVars, ereq, clientVars, tracker, monitor >>

\* io.to('dashboard').emit(...); res.json({ success: true })
CallRespond(k) ==
    /\ calls[k].pc = "respond"
    /\ calls' = [calls EXCEPT ![k] =
                    [@ EXCEPT !.pc = "done", !.response = "success"]]
    /\ UNCHANGED << storeVars, learningVars, engineVars, ereq, clientVars, tracker, monitor >>

CallStep(k) ==
    \/ CancelReceive(k)
    \/ CancelGet(k)
    \/ CancelUpdate(k)
    \/ CancelLearn(k)
    \/ ResolveReceive(k)
    \/ ResolveUpdate(k)
    \/ CallRespond(k)

\* a user with one emergency contact and one active sos_events row
Init ==
    /\ users = [exists |-> TRUE, hasThresholds |-> FALSE,
                adaptiveThresholds |-> DefaultThresholds]
    /\ users0 = users
    /\ lreq = [r \in LearningReqs |-> IdleLearningReq]
    /\ learning_data = << >>
    /\ emergencies = << >>
    /\ emergency_contacts = << "a@example.org" >>
    /\ sos_events = << [status |-> "active", updatedAt |-> 1, severity |-> "normal"] >>
    /\ InitServerIdle
    /\ InitClientIdle
    /\ InitEngineIdle

\* the report, cancel and resolve routes served concurrently
Next ==
    \/ ReportStep(1)
    \/ \E k \in Calls : CallStep(k)

Spec == Init /\ [][Next]_vars

\* C4: an EmergencyRecord whose status is 'cancelled' or 'resolved' keeps
\* that status in every later step: both are terminal and exclude each other
C4_TerminalStatus ==
    [][\A id \in DOMAIN emergencies :
          emergencies[id].status \in {"cancelled", "resolved"}
             => emergencies'[id].status = emergencies[id].status]_vars

\* the false_positive LearningRecords that reference emergency id
CancelRecordsOf(id) ==
    {i \in DOMAIN learning_data :
        /\ learning_data[i].emergencyId = id
        /\ learning_data[i].outcome = "false_positive"}

\* no cancel request for emergency id is being served
NoCancelInFlight(id) ==
    \A k \in Calls :
        (calls[k].kind = "cancel" /\ calls[k].target = id)
            => calls[k].pc \in {"idle", "done"}

\* C20: a cancelled EmergencyRecord has exactly one false_positive
\* LearningRecord referencing it, and its cancel reason is stored
C20_OneLearningRecordPerCancel ==
    \A id \in DOMAIN emergencies :
        (emergencies[id].status = "cancelled" /\ NoCancelInFlight(id))
            => /\ Cardinality(CancelRecordsOf(id)) = 1
               /\ emergencies[id].cancelReason # "none"

\* C23: createdAt, sensorData and breakdown of an EmergencyRecord are the
\* same after every step as before it, whatever cancel and resolve
\* requests are served
C23_CreationFieldsKept ==
    [][\A id \in DOMAIN emergencies :
          /\ emergencies'[id].createdAt = emergencies[id].createdAt
          /\ emergencies'[id].sensorData = emergencies[id].sensorData
          /\ emergencies'[id].breakdown = emergencies[id].breakdown]_vars

\* a record that was cancelled and then resolved
C23_Witness ==
    \E id \in DOMAIN emergencies :
        /\ emergencies[id].status = "resolved"
        /\ emergencies[id].cancelReason # "none"
        /\ emergencies[id].resolutionNotes # "none"
        /\ emergencies[id].createdAt = id
        /\ emergencies[id].breakdown = "manual"

(***************************************************************************)
(* Client: RealTimeLocationService (services/EmergencyDetector.js).  Each  *)
(* method sends its setDoc(..., { merge: true }) and awaits it; the store  *)
(* applies the writes of the client in the order sent.  The document of a  *)
(* session does not exist (status "absent") until its first write.         *)
(***************************************************************************)
MaxTrackSessions == 2
MaxTrackWrites == 3

Severities == {"normal", "suspicious", "emergency"}

TrackWrite(kind, id, severity) == [kind |-> kind, doc |-> id, severity |-> severity]

\* serverTimestamp(): later than every updatedAt stored so far
ServerTimestamp ==
    1 + (CHOOSE t \in {0} \cup {sos_events[i].updatedAt : i \in DOMAIN sos_events} :
            \A i \in DOMAIN sos_events : sos_events[i].updatedAt <= t)

\* startTracking(userId, sosId, ...) with a new sosId (startLocationTracking)
TrackStart ==
    /\ tracker.sessions < MaxTrackSessions
    /\ tracker' = [tracker EXCEPT !.watching = TRUE,
                                  !.currentSOSId = Len(sos_events) + 1,
                                  !.sessions = @ + 1]
    /\ sos_events' = Append(sos_events,
                            [status |-> "absent", updatedAt |-> 0,
                             severity |-> "normal"])
    /\ UNCHANGED << users, learning_data, emergencies, emergency_contacts,
                    learningVars, serverVars, clientVars, engineVars, monitor >>

\* the watchPosition callback: handleLocationUpdate(position) with real
\* coordinates sends { ..., severity: 'normal', status: 'active', updatedAt }
HandleLocationUpdate ==
    /\ tracker.watching
    /\ tracker.currentSOSId # Null
    /\ tracker.issued < MaxTrackWrites
    /\ tracker' = [tracker EXCEPT
          !.queue = Append(@, TrackWrite("location", tracker.currentSOSId, "normal")),
          !.issued = @ + 1]
    /\ UNCHANGED << storeVars, learningVars, serverVars, clientVars, engineVars, monitor >>

\* updateSeverity(severity) sends { severity, updatedAt }
UpdateSeverity ==
    /\ tracker.currentSOSId # Null
    /\ tracker.issued < MaxTrackWrites
    /\ \E sev \in Severities :
          tracker' = [tracker EXCEPT
              !.queue = Append(@, TrackWrite("severity", tracker.currentSOSId, sev)),
              !.issued = @ + 1]
    /\ UNCHANGED << storeVars, learningVars, serverVars, clientVars, engineVars, monitor >>

\* resolveSOS() sends { status: 'resolved', resolvedAt, updatedAt } and
\* awaits it
ResolveSOS ==
    /\ tracker.currentSOSId # Null
    /\ tracker.issued < MaxTrackWrites
    /\ tracker' = [tracker EXCEPT
          !.queue = Append(@, TrackWrite("resolve", tracker.currentSOSId, "normal")),
          !.issued = @ + 1]
    /\ UNCHANGED << storeVars, learningVars, serverVars, clientVars, engineVars, monitor >>

\* stopTracking(), called by stopMonitoring
StopTracking ==
    /\ tracker.watching
    /\ tracker' = [tracker EXCEPT !.watching = FALSE, !.currentSOSId = Null]
    /\ UNCHANGED << storeVars, learningVars, serverVars, clientVars, engineVars, monitor >>

\* the store applies the oldest write in flight and the awaiting method
\* goes on: after its write resolveSOS calls this.stopTracking()
TrackApply ==
    /\ tracker.queue # << >>
    /\ LET w == Head(tracker.queue)
       IN /\ sos_events' = [sos_events EXCEPT ![w.doc] =
                IF w.kind = "location"
                THEN [status |-> "active", updatedAt |-> ServerTimestamp,
                      severity |-> "normal"]
                ELSE IF w.kind = "severity"
                THEN [@ EXCEPT !.severity = w.severity,
                               !.updatedAt = ServerTimestamp]
                ELSE [@ EXCEPT !.status = "resolved",
                               !.updatedAt = ServerTimestamp]]
          /\ tracker' = IF w.kind = "resolve"
                        THEN [tracker EXCEPT !.queue = Tail(@),
                                             !.watching = FALSE,
                                             !.currentSOSId = Null]
                        ELSE [tracker EXCEPT !.queue = Tail(@)]
    /\ UNCHANGED << users, learning_data, emergencies, emergency_contacts,
                    learningVars, serverVars, clientVars, engineVars, monitor >>

\* the store rejects the oldest write in flight: the method's catch logs it
TrackReject ==
    /\ tracker.queue # << >>
    /\ tracker' = [tracker EXCEPT !.queue = Tail(@)]
    /\ UNCHANGED << storeVars, learningVars, serverVars, clientVars, engineVars, monitor >>

NextTracking ==
    \/ TrackStart
    \/ HandleLocationUpdate
    \/ UpdateSeverity
    \/ ResolveSOS
    \/ StopTracking
    \/ TrackApply
    \/ TrackReject

SpecTracking == InitCountdown /\ [][NextTracking]_vars

\* C25: an sos_events record whose status is resolved is the same after
\* every step as before it, whatever location and severity writes were in
\* flight when resolveSOS ran
C25_ResolvedSosImmutable ==
    [][\A i \in DOMAIN sos_events :
          sos_events[i].status = "resolved" => sos_events'[i] = sos_events[i]]_vars

=============================================================================
